---- MODULE Spec2Model ----
\* Crypto Trader Pro (src/app_crypto.py): the cached OHLC fetch, the RSI
\* computation and the main() run of the Streamlit script, as a state machine.
EXTENDS Integers, Sequences, FiniteSets, TLC

\* ---------------------------------------------------------------- bounds
\* Longest close series given to calculate_rsi in SpecRSI.
MaxLen == 4
\* Close prices are drawn from 1..MaxPrice.
MaxPrice == 4
\* RSI periods are drawn from 1..MaxPeriod.
MaxPeriod == 3
\* The clock advances by TickStep seconds at a time, up to MaxTime.
TickStep == 150
MaxTime == 450

\* ------------------------------------------------------ program constants
\* @st.cache_data(ttl=300)
TTL == 300
\* def calculate_rsi(df, period=14)
DefaultPeriod == 14
\* columns=['timestamp', 'open', 'high', 'low', 'close']
NumFields == 5

\* ------------------------------------------------- float64 cell values
\* A cell of a pandas column: a float64 (finite rational n/d, -0.0, +-inf,
\* NaN) or a Python str object (a non-numeric JSON value).
Num(n) == [k |-> "num", n |-> n, d |-> 1]
NaN == [k |-> "nan", n |-> 0, d |-> 1]
NegZero == [k |-> "nzero", n |-> 0, d |-> 1]
Inf(s) == [k |-> "inf", n |-> s, d |-> 1]
Str == [k |-> "str", n |-> 0, d |-> 1]

RECURSIVE GCD(_, _)
GCD(a, b) ==
    IF b = 0 THEN a ELSE GCD(b, a % b)

Abs(x) ==
    IF x < 0 THEN -x ELSE x

\* The finite float n/d (d # 0), in lowest terms with a positive denominator.
Frac(n, d) ==
    LET g == GCD(Abs(n), Abs(d))
        s == IF d < 0 THEN -1 ELSE 1
    IN  [k |-> "num", n |-> (s * n) \div g, d |-> (s * d) \div g]

IsNaN(a) == a.k = "nan"
IsZero(a) == a.k = "nzero" \/ (a.k = "num" /\ a.n = 0)
\* Sign bit of a float: -1 for negatives, -0.0 and -inf.
Sgn(a) ==
    IF a.k = "nzero" THEN -1
    ELSE IF a.n < 0 THEN -1 ELSE 1

\* IEEE-754 zero of the given sign.
Zero(s) ==
    IF s < 0 THEN NegZero ELSE Num(0)

\* Unary minus of a float.
FNeg(a) ==
    CASE a.k = "nan" -> NaN
      [] a.k = "inf" -> Inf(-a.n)
      [] a.k = "nzero" -> Num(0)
      [] OTHER -> IF a.n = 0 THEN NegZero ELSE Frac(-a.n, a.d)

\* a + b in float64 (round-to-nearest: x + (-x) = +0.0).
FAdd(a, b) ==
    CASE IsNaN(a) \/ IsNaN(b) -> NaN
      [] a.k = "inf" /\ b.k = "inf" -> IF a.n = b.n THEN a ELSE NaN
      [] a.k = "inf" -> a
      [] b.k = "inf" -> b
      [] IsZero(a) /\ IsZero(b) -> IF Sgn(a) < 0 /\ Sgn(b) < 0 THEN NegZero ELSE Num(0)
      [] OTHER -> Frac(a.n * b.d + b.n * a.d, a.d * b.d)

FSub(a, b) ==
    FAdd(a, FNeg(b))

\* FDiv with every division by zero giving NaN (no +-inf).
FDivZeroNaN(a, b) ==
    CASE IsNaN(a) \/ IsNaN(b) -> NaN
      [] a.k = "inf" /\ b.k = "inf" -> NaN
      [] a.k = "inf" -> Inf(a.n * Sgn(b))
      [] b.k = "inf" -> Zero(Sgn(a) * b.n)
      [] IsZero(b) -> NaN
      [] IsZero(a) -> Zero(Sgn(a) * Sgn(b))
      [] OTHER -> Frac(a.n * b.d, a.d * b.n)

\* a / b in float64: x/0 = +-inf, 0/0 = NaN, x/inf = +-0.
FDiv(a, b) ==
    CASE IsNaN(a) \/ IsNaN(b) -> NaN
      [] a.k = "inf" /\ b.k = "inf" -> NaN
      [] a.k = "inf" -> Inf(a.n * Sgn(b))
      [] b.k = "inf" -> Zero(Sgn(a) * b.n)
      [] IsZero(b) -> IF IsZero(a) THEN NaN ELSE Inf(Sgn(a) * Sgn(b))
      [] IsZero(a) -> Zero(Sgn(a) * Sgn(b))
      [] OTHER -> Frac(a.n * b.d, a.d * b.n)

\* a > 0 and a < 0 as pandas evaluates them elementwise (False on NaN).
FGt0(a) ==
    (a.k = "inf" /\ a.n > 0) \/ (a.k = "num" /\ a.n > 0)
FLt0(a) ==
    (a.k = "inf" /\ a.n < 0) \/ (a.k = "num" /\ a.n < 0)

\* ------------------------------------------------------ pandas Series
\* Series.diff(): the first element is NaN, then s[i] - s[i-1].
Diff(s) ==
    [i \in 1..Len(s) |-> IF i = 1 THEN NaN ELSE FSub(s[i], s[i - 1])]

\* diff() on an object column subtracts Python objects: a str operand raises
\* TypeError. True when some subtraction of Diff(s) has a str operand.
DiffRaises(s) ==
    \E i \in 2..Len(s) : s[i].k = "str" \/ s[i - 1].k = "str"

\* Series.where(cond, 0): the element where cond holds, 0.0 elsewhere (NaN
\* compares False, so the NaN of diff() becomes 0.0).
\* delta.where(delta > 0, 0)
WhereGt0(s) ==
    [i \in 1..Len(s) |-> IF FGt0(s[i]) THEN s[i] ELSE Num(0)]
\* delta.where(delta < 0, 0)
WhereLt0(s) ==
    [i \in 1..Len(s) |-> IF FLt0(s[i]) THEN s[i] ELSE Num(0)]

\* Unary minus of a Series.
Neg(s) ==
    [i \in 1..Len(s) |-> FNeg(s[i])]

\* Sum of s[lo..hi], accumulated from 0.0 as the rolling kernel does.
RECURSIVE SumRange(_, _, _)
SumRange(s, lo, hi) ==
    IF hi < lo THEN Num(0) ELSE FAdd(SumRange(s, lo, hi - 1), s[hi])

\* Series.rolling(window=w).mean(): min_periods = w, so the value is NaN until
\* w observations exist and whenever the window holds a NaN. A window of -0.0
\* only has mean +0.0 or -0.0 depending on the pandas release (zs).
RollingMean(s, w, zs) ==
    [i \in 1..Len(s) |->
        IF i < w \/ (\E j \in (i - w + 1)..i : IsNaN(s[j])) THEN NaN
        ELSE IF \A j \in (i - w + 1)..i : s[j] = NegZero THEN Zero(zs)
        ELSE FDiv(SumRange(s, i - w + 1, i), Num(w))]

\* gain = (delta.where(delta > 0, 0)).rolling(window=period).mean()
AvgGain(close, period, zs) ==
    RollingMean(WhereGt0(Diff(close)), period, zs)

\* loss = (-delta.where(delta < 0, 0)).rolling(window=period).mean()
AvgLoss(close, period, zs) ==
    RollingMean(Neg(WhereLt0(Diff(close))), period, zs)

\* rs = gain / loss; 100 - (100 / (1 + rs)), elementwise.
RsiSeries(close, period, zs) ==
    LET gain == AvgGain(close, period, zs)
        loss == AvgLoss(close, period, zs)
    IN  [i \in 1..Len(close) |->
            FSub(Num(100), FDiv(Num(100), FAdd(Num(1), FDiv(gain[i], loss[i]))))]

\* --------------------------------------------------------- DataFrames
\* A DataFrame is a function from column names to equally long cell
\* sequences; pd.DataFrame() has no columns.
EmptyFrame == [c \in {} |-> <<>>]

\* df.empty: no columns or no rows.
IsEmpty(frame) ==
    DOMAIN frame = {} \/ \A c \in DOMAIN frame : Len(frame[c]) = 0

\* df[name] = values: the frame with the column added or overwritten.
SetColumn(frame, name, values) ==
    [c \in DOMAIN frame \cup {name} |-> IF c = name THEN values ELSE frame[c]]

\* calculate_rsi raises (TypeError out of diff) on a non-numeric close.
CalculateRsiRaises(frame) ==
    DiffRaises(frame["close"])

\* The DataFrame object after calculate_rsi(df, period): df['RSI'] is assigned
\* on the object passed in.
CalculateRsi(frame, period, zs) ==
    SetColumn(frame, "RSI", RsiSeries(frame["close"], period, zs))

\* ------------------------------------------------------ get_ohlc_data
\* columns=['timestamp', 'open', 'high', 'low', 'close']
Columns == <<"timestamp", "open", "high", "low", "close">>

\* Longest record of a JSON payload.
RECURSIVE MaxWidth(_)
MaxWidth(data) ==
    IF data = <<>> THEN 0
    ELSE LET w == MaxWidth(Tail(data))
         IN  IF Len(Head(data)) > w THEN Len(Head(data)) ELSE w

\* pd.DataFrame(data, columns=[5 names]) raises ValueError unless the widest
\* record has exactly 5 fields.
DataFrameRaises(data) ==
    MaxWidth(data) # NumFields

\* pd.DataFrame pads the records shorter than the widest one with NaN.
Cell(row, i) ==
    IF i <= Len(row) THEN row[i] ELSE NaN

\* pd.to_datetime(df['timestamp'], unit='ms'): raises ValueError on a value
\* that is no number; NaN becomes NaT.
ToDatetimeRaises(stamps) ==
    \E i \in 1..Len(stamps) : stamps[i].k = "str"
ToDatetime(stamps) ==
    [i \in 1..Len(stamps) |->
        IF IsNaN(stamps[i]) THEN [k |-> "nat", n |-> 0, d |-> 1]
        ELSE [k |-> "date", n |-> stamps[i].n, d |-> 1]]

\* The DataFrame of lines 28-29, when neither line raises.
BuildFrame(data) ==
    LET raw == [c \in {Columns[j] : j \in 1..NumFields} |->
                   [i \in 1..Len(data) |->
                       Cell(data[i], CHOOSE j \in 1..NumFields : Columns[j] = c)]]
    IN  SetColumn(raw, "date", ToDatetime(raw["timestamp"]))

\* What the provider does with one HTTP GET: the connection fails, the status
\* is not 2xx, the body is no JSON, or the body is the JSON value data.
Answer(kind, data) == [kind |-> kind, data |-> data]

\* The exception the try block of get_ohlc_data raises on an answer, or "none".
Raised(ans) ==
    CASE ans.kind = "transport" -> "ConnectionError"
      [] ans.kind = "status" -> "HTTPError"
      [] ans.kind = "badjson" -> "JSONDecodeError"
      [] ans.data = <<>> -> "none"
      [] DataFrameRaises(ans.data) -> "ValueError"
      [] ToDatetimeRaises([i \in 1..Len(ans.data) |-> Cell(ans.data[i], 1)]) -> "ValueError"
      [] OTHER -> "none"

\* ExceptCatches for "except requests.RequestException".
ExceptCatchesRequestsOnly(exc) ==
    exc \in {"ConnectionError", "HTTPError"}

\* except Exception as e: every exception class raised here derives from it.
ExceptCatches(exc) ==
    exc \in {"ConnectionError", "HTTPError", "JSONDecodeError", "ValueError", "TypeError"}

\* The body of get_ohlc_data run on the provider's answer: whether an
\* exception escapes, and the DataFrame returned if none does.
GetOhlcData(ans) ==
    LET exc == Raised(ans)
    IN  IF exc # "none"
        THEN [escaped |-> ~ExceptCatches(exc), frame |-> EmptyFrame]
        ELSE IF ans.data = <<>>
        THEN [escaped |-> FALSE, frame |-> EmptyFrame]
        ELSE [escaped |-> FALSE, frame |-> BuildFrame(ans.data)]

\* ------------------------------------------------- st.cache_data(ttl=300)
\* Fresh with the entry still usable at exactly TTL seconds.
FreshInclusive(entry, t) ==
    t - entry.storedAt <= TTL

\* A cache entry is usable while less than TTL seconds have passed since it
\* was stored.
Fresh(entry, t) ==
    t - entry.storedAt < TTL

\* The cache lookup of the decorator for a key at time t.
CacheHit(c, key, t) ==
    key \in DOMAIN c /\ Fresh(c[key], t)

\* CacheStore that keeps empty results out of the cache.
CacheStoreSkipEmpty(c, key, frame, t) ==
    IF IsEmpty(frame) THEN c
    ELSE [k \in DOMAIN c \cup {key} |->
             IF k = key THEN [value |-> frame, storedAt |-> t] ELSE c[k]]

\* The cache after the decorator stores the returned value under the key.
CacheStore(c, key, frame, t) ==
    [k \in DOMAIN c \cup {key} |->
        IF k = key THEN [value |-> frame, storedAt |-> t] ELSE c[k]]

\* ------------------------------------------------------------- inputs
\* coins = {"Bitcoin": "bitcoin", "Ethereum": "ethereum", ...}
Coins == {"bitcoin", "ethereum", "solana", "ripple"}
\* select_slider(..., options=["7", "14", "30", "90", "180", "365"])
SliderOptions == {"7", "14", "30", "90", "180", "365"}
\* "CoinGecko OHLC aceita dias especificos: 1, 7, 14, 30, 90, 180, 365"
AllowedWindows == {"1", "7", "14", "30", "90", "180", "365"}

\* The selections main() is run with, and the arguments get_ohlc_data is
\* called with directly (days is any str).
MainCoins == {"bitcoin", "ethereum"} \cap Coins
MainDays == {"30"} \cap SliderOptions
DirectCoins == {"bitcoin"}
DirectDays == {"45"}

\* One OHLC record [time, open, high, low, close].
Candle(ts, o, h, l, c) == <<Num(ts), Num(o), Num(h), Num(l), Num(c)>>

GoodPayload == <<Candle(1, 10, 12, 9, 11), Candle(2, 11, 13, 10, 12)>>
\* The second record lacks its close.
RaggedPayload == <<Candle(1, 10, 12, 9, 11), <<Num(2), Num(11), Num(13), Num(10)>>>>
\* Every record lacks its close.
ShortPayload == <<<<Num(1), Num(10), Num(12), Num(9)>>, <<Num(2), Num(11), Num(13), Num(10)>>>>
\* The second record's close is a string.
NonNumericPayload == <<Candle(1, 10, 12, 9, 11), <<Num(2), Num(11), Num(13), Num(10), Str>>>>
\* The second record's timestamp is a string.
BadStampPayload == <<Candle(1, 10, 12, 9, 11), <<Str, Num(11), Num(13), Num(10), Num(12)>>>>
Payloads ==
    {<<>>, GoodPayload, RaggedPayload, ShortPayload, NonNumericPayload, BadStampPayload}

Answers ==
    {Answer("transport", <<>>), Answer("status", <<>>), Answer("badjson", <<>>)}
    \cup {Answer("json", data) : data \in Payloads}
NoAnswer == Answer("none", <<>>)

\* -------------------------------------------------------------- state
VARIABLES
    now,        \* the clock of the cache, in seconds
    cache,      \* st.cache_data store of get_ohlc_data: (coin_id, days) -> entry
    pc,         \* position of the script run: idle, waiting, returned, done, crashed
    caller,     \* who called get_ohlc_data: main or direct
    req,        \* the (coin_id, days) of the current call
    net,        \* the HTTP GET of the current call: none, pending, stalled
    resp,       \* the provider's answer to the HTTP GET of the current call
    lookup,     \* the cache lookup of the current call: none, hit, miss
    df,         \* main's df (the DataFrame get_ohlc_data returned)
    ui,         \* what main rendered: none, charts, warning
    zeroSign,   \* sign of pandas' rolling mean over a window of -0.0
    heap,       \* DataFrame objects of a calculate_rsi call, by reference
    argRef,     \* the reference passed to calculate_rsi
    retRef,     \* the reference calculate_rsi returned
    argBefore,  \* the argument's content when calculate_rsi was called
    period,     \* the period passed to calculate_rsi
    rsiPc       \* position of the calculate_rsi call: off, ready, returned

vars ==
    <<now, cache, pc, caller, req, net, resp, lookup, df, ui, zeroSign,
      heap, argRef, retRef, argBefore, period, rsiPc>>
pipeVars ==
    <<now, cache, pc, caller, req, net, resp, lookup, df, ui>>
rsiVars ==
    <<heap, argRef, retRef, argBefore, period, rsiPc>>

NoKey == <<"", "">>
NoRef == "null"

PipeInit ==
    /\ now = 0
    /\ cache = [k \in {} |-> 0]
    /\ pc = "idle"
    /\ caller = "main"
    /\ req = NoKey
    /\ net = "none"
    /\ resp = NoAnswer
    /\ lookup = "none"
    /\ df = EmptyFrame
    /\ ui = "none"

RsiOff ==
    /\ heap = [r \in {} |-> 0]
    /\ argRef = NoRef
    /\ retRef = NoRef
    /\ argBefore = EmptyFrame
    /\ period = DefaultPeriod
    /\ rsiPc = "off"

\* The script starts with an empty cache and no run in progress.
Init ==
    /\ PipeInit
    /\ RsiOff
    /\ zeroSign \in {1, -1}

\* ---------------------------------------------------------- the clock
Tick ==
    /\ now + TickStep <= MaxTime
    /\ now' = now + TickStep
    /\ UNCHANGED <<cache, pc, caller, req, net, resp, lookup, df, ui, zeroSign>>
    /\ UNCHANGED rsiVars

\* ------------------------------------------------- calling get_ohlc_data
\* The decorated call: a fresh entry is returned (as a copy) without running
\* the function; otherwise the function runs and issues its HTTP GET.
Call(who, coin, days) ==
    /\ pc \in {"idle", "done", "crashed"}
    /\ caller' = who
    /\ req' = <<coin, days>>
    /\ resp' = NoAnswer
    /\ ui' = "none"
    /\ IF CacheHit(cache, <<coin, days>>, now)
       THEN /\ lookup' = "hit"
            /\ df' = cache[<<coin, days>>].value
            /\ net' = "none"
            /\ pc' = "returned"
       ELSE /\ lookup' = "miss"
            /\ df' = EmptyFrame
            /\ net' = "pending"
            /\ pc' = "waiting"
    /\ UNCHANGED <<now, cache, zeroSign>>
    /\ UNCHANGED rsiVars

\* main(): df = get_ohlc_data(coin_id, days) with the sidebar's selections.
MainRun(coin, days) ==
    Call("main", coin, days)

\* get_ohlc_data(coin_id, days) called with arguments of the caller's choice.
DirectCall(coin, days) ==
    Call("direct", coin, days)

\* The provider answers the pending GET; the function body finishes and the
\* decorator stores what it returned.
Respond(ans) ==
    /\ pc = "waiting"
    /\ net = "pending"
    /\ net' = "none"
    /\ resp' = ans
    /\ LET out == GetOhlcData(ans)
       IN  IF out.escaped
           THEN /\ pc' = "crashed"
                /\ UNCHANGED <<cache, df>>
           ELSE /\ pc' = "returned"
                /\ df' = out.frame
                /\ cache' = CacheStore(cache, req, out.frame, now)
    /\ UNCHANGED <<now, caller, req, lookup, ui, zeroSign>>
    /\ UNCHANGED rsiVars

\* The provider accepts the connection and never answers: requests.get has
\* no timeout and keeps waiting.
Stall ==
    /\ pc = "waiting"
    /\ net = "pending"
    /\ net' = "stalled"
    /\ UNCHANGED <<now, cache, pc, caller, req, resp, lookup, df, ui, zeroSign>>
    /\ UNCHANGED rsiVars

\* ---------------------------------------------------------------- main
\* if not df.empty: df = calculate_rsi(df), then the charts and the table.
RenderCharts ==
    /\ pc = "returned"
    /\ caller = "main"
    /\ ~IsEmpty(df)
    /\ ~CalculateRsiRaises(df)
    /\ df' = CalculateRsi(df, DefaultPeriod, zeroSign)
    /\ ui' = "charts"
    /\ pc' = "done"
    /\ UNCHANGED <<now, cache, caller, req, net, resp, lookup, zeroSign>>
    /\ UNCHANGED rsiVars

\* if not df.empty: calculate_rsi(df) raises and nothing in main catches it.
RsiCrash ==
    /\ pc = "returned"
    /\ caller = "main"
    /\ ~IsEmpty(df)
    /\ CalculateRsiRaises(df)
    /\ pc' = "crashed"
    /\ UNCHANGED <<now, cache, caller, req, net, resp, lookup, df, ui, zeroSign>>
    /\ UNCHANGED rsiVars

\* else: st.warning("Nao foi possivel carregar os dados OHLC.")
ShowWarning ==
    /\ pc = "returned"
    /\ caller = "main"
    /\ IsEmpty(df)
    /\ ui' = "warning"
    /\ pc' = "done"
    /\ UNCHANGED <<now, cache, caller, req, net, resp, lookup, df, zeroSign>>
    /\ UNCHANGED rsiVars

\* A direct caller takes the returned DataFrame and is done.
DirectReturn ==
    /\ pc = "returned"
    /\ caller = "direct"
    /\ pc' = "done"
    /\ UNCHANGED <<now, cache, caller, req, net, resp, lookup, df, ui, zeroSign>>
    /\ UNCHANGED rsiVars

Next ==
    \/ Tick
    \/ \E coin \in MainCoins, days \in MainDays : MainRun(coin, days)
    \/ \E coin \in DirectCoins, days \in DirectDays : DirectCall(coin, days)
    \/ \E ans \in Answers : Respond(ans)
    \/ Stall
    \/ RenderCharts
    \/ RsiCrash
    \/ ShowWarning
    \/ DirectReturn

Spec == Init /\ [][Next]_vars

\* Time passes, the script's own steps always run, and the provider answers
\* a pending GET unless it stalls.
FairSpec ==
    /\ Spec
    /\ WF_vars(Tick)
    /\ WF_vars(\E ans \in Answers : Respond(ans))
    /\ WF_vars(RenderCharts)
    /\ WF_vars(RsiCrash)
    /\ WF_vars(ShowWarning)
    /\ WF_vars(DirectReturn)

\* ------------------------------------------- calculate_rsi on its own
Prices == 1..MaxPrice
CloseInputs ==
    UNION {[1..n -> {Num(v) : v \in Prices}] : n \in 1..MaxLen}

\* A DataFrame with a close column is about to be passed to calculate_rsi.
InitRSI ==
    /\ PipeInit
    /\ zeroSign \in {1, -1}
    /\ period \in 1..MaxPeriod
    /\ \E close \in CloseInputs :
          /\ heap = [r \in {"df"} |-> [c \in {"close"} |-> close]]
          /\ argBefore = [c \in {"close"} |-> close]
    /\ argRef = "df"
    /\ retRef = NoRef
    /\ rsiPc = "ready"

\* calculate_rsi(df, period): assigns df['RSI'] and returns df.
CallCalculateRsi ==
    /\ rsiPc = "ready"
    /\ ~CalculateRsiRaises(heap[argRef])
    /\ heap' = [heap EXCEPT ![argRef] = CalculateRsi(heap[argRef], period, zeroSign)]
    /\ retRef' = argRef
    /\ rsiPc' = "returned"
    /\ UNCHANGED <<argRef, argBefore, period, zeroSign>>
    /\ UNCHANGED pipeVars

NextRSI ==
    CallCalculateRsi

SpecRSI == InitRSI /\ [][NextRSI]_vars

\* ============================================================ claims
\* The close series passed to calculate_rsi, and the columns it produced.
CloseIn == argBefore["close"]
RsiOut == heap[retRef]["RSI"]
GainOut == AvgGain(CloseIn, period, zeroSign)
LossOut == AvgLoss(CloseIn, period, zeroSign)

IsFlat(s) == \A i \in 2..Len(s) : s[i] = s[i - 1]
IsIncreasing(s) == \A i \in 2..Len(s) : s[i].n > s[i - 1].n

\* C1: on a flat close series calculate_rsi yields exactly 50 at every index
\* where both trailing averages are defined, never an absent value. (Checked
\* at the indices past the first period samples, where the averages are
\* defined on any reading of rule 3.)
C1_FlatRsiIsFifty ==
    (rsiPc = "returned" /\ IsFlat(CloseIn)) =>
        \A i \in 1..Len(CloseIn) :
            (i > period /\ ~IsNaN(GainOut[i]) /\ ~IsNaN(LossOut[i])) => RsiOut[i] = Num(50)

\* C2: on a strictly increasing close series, at every index with enough
\* history (period real differences, i.e. past the first period samples) the
\* trailing average loss is exactly 0 and the RSI is 100.
C2_IncreasingRsiIsHundred ==
    (rsiPc = "returned" /\ IsIncreasing(CloseIn)) =>
        \A i \in 1..Len(CloseIn) :
            i > period => (IsZero(LossOut[i]) /\ RsiOut[i] = Num(100))

\* C2 witness: an increasing series with indices past the first period samples.
C2_Witness ==
    /\ rsiPc = "returned"
    /\ IsIncreasing(CloseIn)
    /\ Len(CloseIn) > period + 1
    /\ period > 1

\* C7: calculate_rsi leaves the DataFrame passed in as it was and returns a
\* new one that differs from it only by the RSI column.
C7_InputNotMutated ==
    rsiPc = "returned" =>
        /\ heap[argRef] = argBefore
        /\ retRef # argRef
        /\ heap[retRef] = SetColumn(argBefore, "RSI", RsiOut)

IsMoving(s) == \A i \in 2..Len(s) : s[i] # s[i - 1]

\* C8: the RSI is absent at each of the first period samples and defined from
\* sample period + 1 on (all absent when the series has at most period samples).
\* (Checked on the series whose consecutive samples differ, where no average
\* pair is 0 and 0.)
C8_RsiDefinedAfterPeriod ==
    (rsiPc = "returned" /\ IsMoving(CloseIn)) =>
        \A i \in 1..Len(CloseIn) : IsNaN(RsiOut[i]) <=> i <= period

\* A step in which get_ohlc_data is called.
IsCallStep == pc \in {"idle", "done", "crashed"} /\ pc' \in {"returned", "waiting"}
\* A step in which the provider's answer comes back and the call returns.
IsReturnStep == pc = "waiting" /\ pc' = "returned"

\* C3: a call whose key was stored less than TTL seconds ago returns the
\* stored snapshot and issues no GET; any other call issues exactly one GET,
\* whose result is what the call returns and what is stored for the key; a GET
\* is issued by nothing else.
C3_CacheRoundTrip ==
    [][/\ IsCallStep =>
            (IF req' \in DOMAIN cache /\ now - cache[req'].storedAt < TTL
             THEN net' = "none" /\ pc' = "returned" /\ df' = cache[req'].value /\ cache' = cache
             ELSE net' = "pending" /\ pc' = "waiting" /\ cache' = cache)
        /\ (IsReturnStep => cache'[req] = [value |-> df', storedAt |-> now])
        /\ ((net' = "pending" /\ net # "pending") => IsCallStep)]_vars

\* C3 witness: a key whose entry has expired is being fetched again.
C3_Witness ==
    /\ lookup = "miss"
    /\ net = "pending"
    /\ req \in DOMAIN cache
    /\ now - cache[req].storedAt >= TTL

\* C4: a fetch for a window outside the provider's set issues no GET.
C4_InvalidWindowNoRequest ==
    (req # NoKey /\ req[2] \notin AllowedWindows) =>
        (net = "none" /\ lookup # "miss" /\ resp = NoAnswer)

\* The provider outcomes C5 names: transport failure, non-2xx status,
\* unparsable body, empty payload.
IsFailure(ans) ==
    ans.kind \in {"transport", "status", "badjson"} \/ (ans.kind = "json" /\ ans.data = <<>>)

\* C5: after a failed provider call get_ohlc_data has returned an empty result
\* (no exception escaped), and main shows the empty-state message without
\* computing the RSI or rendering charts.
C5_FailureDegradesToEmpty ==
    IsFailure(resp) =>
        /\ pc \in {"returned", "done"}
        /\ IsEmpty(df)
        /\ "RSI" \notin DOMAIN df
        /\ ui # "charts"
        /\ ((pc = "done" /\ caller = "main") => ui = "warning")

\* C5 witness: main has shown the warning after an unparsable body.
C5_Witness ==
    resp.kind = "badjson" /\ pc = "done" /\ caller = "main" /\ ui = "warning"

\* A payload with a record of fewer than 5 fields or a non-numeric value.
HasBadRecord(data) ==
    \E i \in 1..Len(data) :
        Len(data[i]) < NumFields \/ (\E j \in 1..Len(data[i]) : data[i][j].k = "str")

\* C6: a payload with a bad record never yields a non-empty snapshot.
C6_BadRecordFailsSnapshot ==
    (resp.kind = "json" /\ HasBadRecord(resp.data)) => IsEmpty(df)

\* C9: every fetch that started waiting for the provider eventually completes.
C9_FetchCompletes ==
    (pc = "waiting") ~> (pc # "waiting")

\* C10: an empty result is stored like any other, and a call for its key less
\* than TTL seconds later returns the empty result without a GET.
C10_EmptyResultMemoized ==
    [][/\ ((IsReturnStep /\ IsFailure(resp')) =>
            (req \in DOMAIN cache' /\ cache'[req] = [value |-> EmptyFrame, storedAt |-> now]))
        /\ ((IsCallStep /\ req' \in DOMAIN cache /\ IsEmpty(cache[req'].value)
                /\ now - cache[req'].storedAt < TTL) =>
            (net' = "none" /\ lookup' = "hit" /\ pc' = "returned" /\ IsEmpty(df')))]_vars

\* C10 witness: an empty result served from the cache some time after the
\* failure that produced it.
C10_Witness ==
    /\ lookup = "hit"
    /\ pc = "returned"
    /\ IsEmpty(df)
    /\ req \in DOMAIN cache
    /\ now > cache[req].storedAt

====
